---- MODULE Spec2Model ----
(***************************************************************************)
(* Model of components/MultiversalAppBootstrap.tsx: one React function     *)
(* component, executed synchronously once per render pass by the host      *)
(* framework.  A render is a straight-line run through the function body;  *)
(* pc is the position inside that body.                                    *)
(*                                                                         *)
(* A JavaScript value is a record [type, num, str]: its type tag, its       *)
(* numeric content and its text, so that 404, 404.0 and 0x194 are one      *)
(* value, -0 is 0, and the number 404 differs from the string '404'.       *)
(* An object is a reference: its str names it.  The contents of objects    *)
(* are functions from property names to values; the pageProps object      *)
(* lives in its own variable and props refers to it by PagePropsRef.       *)
(***************************************************************************)
EXTENDS Integers, Sequences, FiniteSets, TLC

VARIABLES
    pc,                 \* position in the body of MultiversalAppBootstrap
    props,              \* the props object of the current render
    pageProps,          \* the object props.pageProps refers to
    browser,            \* what isBrowser() answers in the process that renders
    locals,             \* the consts bound so far in this render
    pageBootstrapProps, \* the const of lines 60-68
    calls,              \* calls made so far in this render, in order
    returned,           \* what the render returned: "none" until it returns
    delegated,          \* props handed to the renderer that was delegated to
    thrown,             \* callee whose exception ended the render, or "none"
    stats               \* calls counted over all renders so far

vars == <<pc, props, pageProps, browser, locals, pageBootstrapProps, calls,
          returned, delegated, thrown, stats>>

----------------------------------------------------------------------------
(* Bounds *)

MaxRenders == 2     \* renders in one behaviour
MaxRest == 1        \* passthrough fields on one props object

----------------------------------------------------------------------------
(* JavaScript values and objects *)

Value(type, num, str) == [type |-> type, num |-> num, str |-> str]
UNDEFINED == Value("undefined", 0, "")
NULL == Value("null", 0, "")
NaN == Value("number", 0, "NaN")
Bool(b) == Value("boolean", IF b THEN 1 ELSE 0, "")
Num(n) == Value("number", n, "")
BigInt(n) == Value("bigint", n, "")
Str(s) == Value("string", 0, s)
Obj(name) == Value("object", 0, name)

EmptyObject == << >>
PagePropsRef == Obj("pageProps")

\* obj.k: a property that is not there reads as undefined
Get(obj, k) == IF k \in DOMAIN obj THEN obj[k] ELSE UNDEFINED

\* ToBoolean, as `a || b` applies it to a
Truthy(v) ==
    CASE v.type \in {"undefined", "null"} -> FALSE
      [] v.type = "boolean" -> v.num = 1
      [] v.type = "number" -> v.num # 0 /\ v.str # "NaN"
      [] v.type = "bigint" -> v.num # 0
      [] v.type = "string" -> v.str # ""
      [] OTHER -> TRUE

\* a === b: same type and same value; NaN equals nothing, an object only itself
StrictEquals(a, b) == a = b /\ a # NaN

\* a == b for a number or a string on the left and a number on the right: a
\* string is compared by the number it spells
LooseEqualsNumber(a, n) ==
    \/ StrictEquals(a, Num(n))
    \/ a.type = "string" /\ a.str = ToString(n)

\* { ...base, ...over }: later properties replace earlier ones of the same name
Spread(base, over) == over @@ base

\* const { Component, err, pageProps, router, ...rest } = props
Named == {"Component", "err", "pageProps", "router"}
Rest(p) == [k \in (DOMAIN p) \ Named |-> p[k]]

fileLabel == Str("components/MultiversalAppBootstrap")

----------------------------------------------------------------------------
(* The inputs of a render *)

ReadyInputs == {EmptyObject} \cup {("isReadyToRender" :> v) : v \in {Bool(TRUE), Bool(FALSE)}}
StatusInputs == {EmptyObject} \cup {("statusCode" :> v) : v \in {Num(404), Str("404")}}
\* fields of pageProps named like properties the component sets itself
ShadowInputs == {EmptyObject, ("theme" :> Obj("pagePropsTheme")), ("router" :> Obj("pagePropsRouter"))}

PagePropsInputs ==
    { Spread(Spread(Spread([customer |-> Obj("customer"), defaultLocales |-> Obj("locales"), lang |-> Str("en")],
                           r), s), h) :
        r \in ReadyInputs, s \in StatusInputs, h \in ShadowInputs }

RestKeys == {"__N_SSG", "theme", "i18nextInstance", "isInIframe", "iframeReferrer",
             "cookiesManager", "userSession"}
RestValue(k) == IF k = "__N_SSG" THEN Bool(TRUE) ELSE Obj("passthrough")
RestInputs ==
    { [k \in K |-> RestValue(k)] : K \in {S \in SUBSET RestKeys : Cardinality(S) <= MaxRest} }

PropsInputs ==
    { Spread([Component |-> Obj("Component"), err |-> Obj("err"), pageProps |-> PagePropsRef,
              router |-> Obj("router")], rest) : rest \in RestInputs }

----------------------------------------------------------------------------
(* Calls *)

Call(fn, args) == [fn |-> fn, args |-> args]

Collaborators == <<"i18nextLocize", "initCustomerTheme", "isRunningInIframe",
                   "getIframeReferrer", "new UniversalCookiesManager",
                   "cookiesManager.getUserData">>
BrowserOnly == {Collaborators[i] : i \in 3..6}
Renderers == {"BrowserPageBootstrap", "PageBootstrap"}

\* what each collaborator may answer
Answers(fn) ==
    CASE fn = "i18nextLocize" -> {Obj("i18n")}
      [] fn = "initCustomerTheme" -> {Obj("theme")}
      [] fn = "isRunningInIframe" -> {Bool(TRUE), Bool(FALSE)}
      [] fn = "getIframeReferrer" -> {Str("https://parent.example")}
      [] fn = "new UniversalCookiesManager" -> {Obj("cookiesManager")}
      [] fn = "cookiesManager.getUserData" -> {Obj("userSession")}

ZeroStats == [renders |-> 0, breadcrumbs |-> 0, gatePasses |-> 0, browserGatePasses |-> 0,
              i18n |-> 0, theme |-> 0, managers |-> 0, aborted |-> 0]

Bump(field) == [stats EXCEPT ![field] = @ + 1]

----------------------------------------------------------------------------
(* The component *)

Init ==
    /\ pc = "idle"
    /\ props = EmptyObject
    /\ pageProps = EmptyObject
    /\ browser = FALSE
    /\ locals = EmptyObject
    /\ pageBootstrapProps = EmptyObject
    /\ calls = << >>
    /\ returned = "none"
    /\ delegated = EmptyObject
    /\ thrown = "none"
    /\ stats = ZeroStats

\* The host framework calls the component with a props object (lines 32-39).
Render ==
    /\ pc = "idle"
    /\ stats.renders < MaxRenders
    /\ \E p \in PropsInputs, pp \in PagePropsInputs, b \in BOOLEAN :
          /\ props' = p
          /\ pageProps' = pp
          /\ browser' = b
    /\ locals' = EmptyObject
    /\ pageBootstrapProps' = EmptyObject
    /\ calls' = << >>
    /\ returned' = "none"
    /\ delegated' = EmptyObject
    /\ thrown' = "none"
    /\ stats' = Bump("renders")
    /\ pc' = "breadcrumb"

\* Mutant: the breadcrumb is emitted inside the isBrowser() block only
AddBreadcrumbInBrowserOnly ==
    /\ pc = "breadcrumb"
    /\ calls' = IF browser THEN Append(calls, Call("Sentry.addBreadcrumb", <<fileLabel>>)) ELSE calls
    /\ stats' = IF browser THEN Bump("breadcrumbs") ELSE stats
    /\ pc' = "debug"
    /\ UNCHANGED <<props, pageProps, browser, locals, pageBootstrapProps, returned,
                   delegated, thrown>>

\* Sentry.addBreadcrumb({...}) (lines 41-45)
AddBreadcrumb ==
    /\ pc = "breadcrumb"
    /\ calls' = Append(calls, Call("Sentry.addBreadcrumb", <<fileLabel>>))
    /\ stats' = Bump("breadcrumbs")
    /\ pc' = "debug"
    /\ UNCHANGED <<props, pageProps, browser, locals, pageBootstrapProps, returned,
                   delegated, thrown>>

\* if (isBrowser()) console.debug(...) (lines 47-49)
DebugProps ==
    /\ pc = "debug"
    /\ calls' = IF browser
                THEN Append(calls, Call("console.debug", <<Str("MultiversalAppBootstrap.props"), Obj("props")>>))
                ELSE calls
    /\ pc' = "gate"
    /\ UNCHANGED <<props, pageProps, browser, locals, pageBootstrapProps, returned,
                   delegated, thrown, stats>>

\* Mutant: `==` in place of `===`, so the string '404' passes too
GatePassesLoose(pp) ==
    Truthy(Get(pp, "isReadyToRender")) \/ LooseEqualsNumber(Get(pp, "statusCode"), 404)

\* Mutant: the 404 escape is forgotten
GatePassesReadyOnly(pp) == Truthy(Get(pp, "isReadyToRender"))

\* pageProps.isReadyToRender || pageProps.statusCode === 404 (line 51)
GatePasses(pp) ==
    Truthy(Get(pp, "isReadyToRender")) \/ StrictEquals(Get(pp, "statusCode"), Num(404))

\* the if of line 51 with its console.info, and the else branch (lines 110-116)
ReadinessGate ==
    /\ pc = "gate"
    /\ IF GatePasses(pageProps)
       THEN /\ calls' = Append(calls, Call("console.info", <<Str("MultiversalAppBootstrap - App is ready, rendering...")>>))
            /\ stats' = IF browser THEN [Bump("gatePasses") EXCEPT !.browserGatePasses = @ + 1]
                                   ELSE Bump("gatePasses")
            /\ pc' = "i18nextLocize"
            /\ UNCHANGED returned
       ELSE /\ calls' = Append(calls, Call("console.info", <<Str("MultiversalAppBootstrap - App is not ready yet, waiting for isReadyToRender")>>))
            /\ returned' = "null"
            /\ pc' = "done"
            /\ UNCHANGED stats
    /\ UNCHANGED <<props, pageProps, browser, locals, pageBootstrapProps, delegated, thrown>>

\* Mutant: the two arguments of i18nextLocize change places
ArgsOfSwapped(fn, pp) ==
    CASE fn = "i18nextLocize" -> <<Get(pp, "defaultLocales"), Get(pp, "lang")>>
      [] fn = "initCustomerTheme" -> <<Get(pp, "customer")>>
      [] OTHER -> << >>

\* the arguments the component passes to each collaborator (lines 53-59, 86-89)
ArgsOf(fn, pp) ==
    CASE fn = "i18nextLocize" -> <<Get(pp, "lang"), Get(pp, "defaultLocales")>>
      [] fn = "initCustomerTheme" -> <<Get(pp, "customer")>>
      [] OTHER -> << >>

\* the const each collaborator's result is bound to
LocalOf(fn) ==
    CASE fn = "i18nextLocize" -> "i18nextInstance"
      [] fn = "initCustomerTheme" -> "theme"
      [] fn = "isRunningInIframe" -> "isInIframe"
      [] fn = "getIframeReferrer" -> "iframeReferrer"
      [] fn = "new UniversalCookiesManager" -> "cookiesManager"
      [] fn = "cookiesManager.getUserData" -> "userSession"

\* the counter a call of the collaborator moves; a manager counts once constructed
Counted(fn, completed) ==
    CASE fn = "i18nextLocize" -> Bump("i18n")
      [] fn = "initCustomerTheme" -> Bump("theme")
      [] fn = "new UniversalCookiesManager" /\ completed -> Bump("managers")
      [] OTHER -> stats

\* `const x = fn(args)` where fn returns: x is bound and the body goes on
Returns(fn, next) ==
    /\ pc = fn
    /\ calls' = Append(calls, Call(fn, ArgsOf(fn, pageProps)))
    /\ \E v \in Answers(fn) : locals' = Spread(locals, LocalOf(fn) :> v)
    /\ stats' = Counted(fn, TRUE)
    /\ pc' = next
    /\ UNCHANGED <<props, pageProps, browser, pageBootstrapProps, returned, delegated, thrown>>

\* Mutant: the call sits in a try/catch that logs the exception and renders nothing
ThrowsCaught(fn) ==
    /\ pc = fn
    /\ calls' = Append(calls, Call(fn, ArgsOf(fn, pageProps)))
    /\ thrown' = fn
    /\ stats' = Counted(fn, FALSE)
    /\ returned' = "null"
    /\ pc' = "done"
    /\ UNCHANGED <<props, pageProps, browser, locals, pageBootstrapProps, delegated>>

\* `const x = fn(args)` where fn throws: there is no try/catch in the body, so
\* the exception leaves the component
Throws(fn) ==
    /\ pc = fn
    /\ calls' = Append(calls, Call(fn, ArgsOf(fn, pageProps)))
    /\ thrown' = fn
    /\ stats' = Counted(fn, FALSE)
    /\ pc' = "failed"
    /\ UNCHANGED <<props, pageProps, browser, locals, pageBootstrapProps, returned, delegated>>

\* Mutant: the i18n instance is kept in a module-level variable after the first
\* call and reused by later renders
I18nextLocizeMemoized ==
    IF stats.i18n > 0
    THEN /\ pc = "i18nextLocize"
         /\ locals' = Spread(locals, "i18nextInstance" :> Obj("i18n"))
         /\ pc' = "initCustomerTheme"
         /\ UNCHANGED <<props, pageProps, browser, pageBootstrapProps, calls, returned,
                        delegated, thrown, stats>>
    ELSE Returns("i18nextLocize", "initCustomerTheme")

\* line 58
I18nextLocize == Returns("i18nextLocize", "initCustomerTheme")

\* line 59
InitCustomerTheme == Returns("initCustomerTheme", "pageBootstrapProps")

\* Mutant: ...rest is spread first, so the properties set after it replace it
PageBootstrapPropsRestFirst(p, pp, l) ==
    Spread(Spread(Rest(p), pp),
           [Component |-> Get(p, "Component"),
            err |-> Get(p, "err"),
            i18nextInstance |-> Get(l, "i18nextInstance"),
            router |-> Get(p, "router"),
            theme |-> Get(l, "theme")])

\* Mutant: ...pageProps is spread after the named properties
PageBootstrapPropsPagePropsLate(p, pp, l) ==
    Spread(Spread([Component |-> Get(p, "Component"),
                   err |-> Get(p, "err"),
                   i18nextInstance |-> Get(l, "i18nextInstance"),
                   router |-> Get(p, "router"),
                   theme |-> Get(l, "theme")], pp),
           Rest(p))

\* the object literal of lines 60-68
PageBootstrapPropsOf(p, pp, l) ==
    Spread(Spread(pp, [Component |-> Get(p, "Component"),
                       err |-> Get(p, "err"),
                       i18nextInstance |-> Get(l, "i18nextInstance"),
                       router |-> Get(p, "router"),
                       theme |-> Get(l, "theme")]),
           Rest(p))

\* lines 60-68
BuildPageBootstrapProps ==
    /\ pc = "pageBootstrapProps"
    /\ pageBootstrapProps' = PageBootstrapPropsOf(props, pageProps, locals)
    /\ pc' = "isBrowser"
    /\ UNCHANGED <<props, pageProps, browser, locals, calls, returned, delegated, thrown, stats>>

\* Mutant: the isBrowser() test is dropped and the browser branch always taken
BranchAlwaysBrowser ==
    /\ pc = "isBrowser"
    /\ pc' = "isRunningInIframe"
    /\ UNCHANGED <<props, pageProps, browser, locals, pageBootstrapProps, calls, returned,
                   delegated, thrown, stats>>

\* if (isBrowser()) ... else ... (lines 85, 103)
BranchOnBrowser ==
    /\ pc = "isBrowser"
    /\ pc' = IF browser THEN "isRunningInIframe" ELSE "PageBootstrap"
    /\ UNCHANGED <<props, pageProps, browser, locals, pageBootstrapProps, calls, returned,
                   delegated, thrown, stats>>

\* line 86
IsRunningInIframe == Returns("isRunningInIframe", "getIframeReferrer")

\* line 87
GetIframeReferrer == Returns("getIframeReferrer", "new UniversalCookiesManager")

\* line 88
NewCookiesManager == Returns("new UniversalCookiesManager", "cookiesManager.getUserData")

\* line 89
GetUserData == Returns("cookiesManager.getUserData", "BrowserPageBootstrap")

\* Mutant: ...pageBootstrapProps is spread after the four browser properties
BrowserPageBootstrapPropsSpreadLast(pbp, l) ==
    Spread([isInIframe |-> Get(l, "isInIframe"),
            iframeReferrer |-> Get(l, "iframeReferrer"),
            cookiesManager |-> Get(l, "cookiesManager"),
            userSession |-> Get(l, "userSession")], pbp)

\* the object literal of lines 90-96
BrowserPageBootstrapPropsOf(pbp, l) ==
    Spread(pbp, [isInIframe |-> Get(l, "isInIframe"),
                 iframeReferrer |-> Get(l, "iframeReferrer"),
                 cookiesManager |-> Get(l, "cookiesManager"),
                 userSession |-> Get(l, "userSession")])

\* return <Renderer {...p} />
Delegate(renderer, p) ==
    /\ pc = renderer
    /\ calls' = Append(calls, Call(renderer, << >>))
    /\ delegated' = p
    /\ returned' = renderer
    /\ pc' = "done"
    /\ UNCHANGED <<props, pageProps, browser, locals, pageBootstrapProps, thrown, stats>>

\* lines 90-102
RenderBrowserPageBootstrap ==
    Delegate("BrowserPageBootstrap", BrowserPageBootstrapPropsOf(pageBootstrapProps, locals))

\* lines 104-108
RenderPageBootstrap == Delegate("PageBootstrap", pageBootstrapProps)

\* a collaborator throws
CollaboratorThrows == \E i \in DOMAIN Collaborators : Throws(Collaborators[i])

\* The render is over: the element, null or the exception is with the host
\* framework, and the function's consts are gone.
ReturnToHost ==
    /\ pc \in {"done", "failed"}
    /\ pc' = "idle"
    /\ stats' = IF pc = "failed" THEN Bump("aborted") ELSE stats
    /\ props' = EmptyObject
    /\ pageProps' = EmptyObject
    /\ browser' = FALSE
    /\ locals' = EmptyObject
    /\ pageBootstrapProps' = EmptyObject
    /\ calls' = << >>
    /\ returned' = "none"
    /\ delegated' = EmptyObject
    /\ thrown' = "none"

Next ==
    \/ Render
    \/ AddBreadcrumb
    \/ DebugProps
    \/ ReadinessGate
    \/ I18nextLocize
    \/ InitCustomerTheme
    \/ BuildPageBootstrapProps
    \/ BranchOnBrowser
    \/ IsRunningInIframe
    \/ GetIframeReferrer
    \/ NewCookiesManager
    \/ GetUserData
    \/ RenderBrowserPageBootstrap
    \/ RenderPageBootstrap
    \/ CollaboratorThrows
    \/ ReturnToHost

Spec == Init /\ [][Next]_vars

----------------------------------------------------------------------------
(* Vocabulary of the properties *)

CallsTo(fn) == {i \in DOMAIN calls : calls[i].fn = fn}
Called(fn) == CallsTo(fn) # {}
CalledOnce(fn) == Cardinality(CallsTo(fn)) = 1
Delegations == {i \in DOMAIN calls : calls[i].fn \in Renderers}
OrderOf(fn) == CHOOSE i \in DOMAIN Collaborators : Collaborators[i] = fn
CollaboratorSet == {Collaborators[i] : i \in DOMAIN Collaborators}
Diagnostics == {"Sentry.addBreadcrumb", "console.debug", "console.info"}

InRender == pc # "idle"
FlagTrue == Get(pageProps, "isReadyToRender") = Bool(TRUE)
FlagFalseOrAbsent == Get(pageProps, "isReadyToRender") \in {Bool(FALSE), UNDEFINED}
Status404 == Get(pageProps, "statusCode") = Num(404)
Completed == pc = "done" /\ returned \in Renderers
BrowserFields == {"isInIframe", "iframeReferrer", "cookiesManager", "userSession"}

----------------------------------------------------------------------------
(* C1 *)

\* C1: a render whose pageProps.isReadyToRender is false or absent and whose
\* statusCode is not 404 renders nothing: it returns null and delegates to
\* neither renderer; a renderer has been delegated to only if the flag was
\* true or the status code 404 in that render.
C1_NotReadyRendersNothing ==
    /\ (InRender /\ FlagFalseOrAbsent /\ ~Status404) =>
          /\ returned \in {"none", "null"}
          /\ delegated = EmptyObject
          /\ Delegations = {}
          /\ pc \in {"breadcrumb", "debug", "gate", "done"}
          /\ (pc = "done" => returned = "null")
    /\ (returned \in Renderers \/ Delegations # {}) => (FlagTrue \/ Status404)

\* a not-ready render with the string '404' as status code has returned null
C1_Witness ==
    /\ pc = "done"
    /\ returned = "null"
    /\ Get(pageProps, "isReadyToRender") = Bool(FALSE)
    /\ Get(pageProps, "statusCode") = Str("404")

----------------------------------------------------------------------------
(* C2 *)

\* C2 as claimed: in every render with isReadyToRender true that delegates,
\* i18nextLocize was called with (lang, defaultLocales), initCustomerTheme with
\* (customer), and the delegated props carry exactly the two results as
\* i18nextInstance and theme, for every incoming props record.
C2_ResolverResultsAlwaysDelegated ==
    (Completed /\ FlagTrue) =>
        /\ \E i \in CallsTo("i18nextLocize") :
              calls[i].args = <<Get(pageProps, "lang"), Get(pageProps, "defaultLocales")>>
        /\ \E i \in CallsTo("initCustomerTheme") :
              calls[i].args = <<Get(pageProps, "customer")>>
        /\ Get(delegated, "i18nextInstance") = Get(locals, "i18nextInstance")
        /\ Get(delegated, "theme") = Get(locals, "theme")

\* C2 amended: as claimed, except that a passthrough field named
\* i18nextInstance or theme, spread last, is what the delegated props carry
\* under that name; without such a field they carry the resolver's result.
C2_ResolverResultsDelegated ==
    (Completed /\ FlagTrue) =>
        /\ \E i \in CallsTo("i18nextLocize") :
              calls[i].args = <<Get(pageProps, "lang"), Get(pageProps, "defaultLocales")>>
        /\ \E i \in CallsTo("initCustomerTheme") :
              calls[i].args = <<Get(pageProps, "customer")>>
        /\ Get(locals, "i18nextInstance") \in Answers("i18nextLocize")
        /\ Get(locals, "theme") \in Answers("initCustomerTheme")
        /\ \A k \in {"i18nextInstance", "theme"} :
              /\ k \in DOMAIN delegated
              /\ delegated[k] = IF k \in DOMAIN Rest(props) THEN props[k] ELSE locals[k]

\* a ready render whose pageProps has its own theme field delegated the
\* resolver's theme
C2_Witness ==
    /\ Completed
    /\ FlagTrue
    /\ "theme" \in DOMAIN pageProps
    /\ Get(delegated, "theme") = Obj("theme")
    /\ Get(delegated, "i18nextInstance") = Obj("i18n")

----------------------------------------------------------------------------
(* C3 *)

\* C3: a render in a non-browser context constructs no session manager, calls
\* neither getUserData nor isRunningInIframe nor getIframeReferrer, never
\* delegates to BrowserPageBootstrap, and, having passed the readiness gate and
\* returned, has delegated to PageBootstrap.
C3_ServerRenderIsUniversal ==
    (InRender /\ ~browser) =>
        /\ \A fn \in BrowserOnly : ~Called(fn)
        /\ DOMAIN locals \cap BrowserFields = {}
        /\ ~Called("BrowserPageBootstrap")
        /\ returned # "BrowserPageBootstrap"
        /\ (pc = "done" /\ (FlagTrue \/ Status404)) =>
              /\ returned = "PageBootstrap"
              /\ CalledOnce("PageBootstrap")
              /\ delegated = pageBootstrapProps

\* a non-browser render passed the gate and delegated to PageBootstrap
C3_Witness ==
    /\ pc = "done"
    /\ ~browser
    /\ FlagTrue
    /\ returned = "PageBootstrap"

----------------------------------------------------------------------------
(* C4 *)

\* C4: a browser render that passed the readiness gate and returned has called
\* isRunningInIframe, getIframeReferrer, the UniversalCookiesManager constructor
\* and getUserData, once each and in that order, and has delegated to
\* BrowserPageBootstrap with isInIframe, iframeReferrer, cookiesManager and
\* userSession equal to the four values obtained in this render.
C4_BrowserRenderDelegatesSession ==
    (pc = "done" /\ browser /\ (FlagTrue \/ Status404)) =>
        /\ returned = "BrowserPageBootstrap"
        /\ \A fn \in BrowserOnly : CalledOnce(fn)
        /\ \A i, j \in 3..6 :
              i < j => \A a \in CallsTo(Collaborators[i]), b \in CallsTo(Collaborators[j]) : a < b
        /\ \A i \in 3..6 :
              LET k == LocalOf(Collaborators[i]) IN
                /\ k \in DOMAIN locals
                /\ locals[k] \in Answers(Collaborators[i])
                /\ k \in DOMAIN delegated
                /\ delegated[k] = locals[k]

\* a browser render whose props carry a passthrough field named userSession
\* delegated the session read from the manager
C4_Witness ==
    /\ pc = "done"
    /\ browser
    /\ returned = "BrowserPageBootstrap"
    /\ "userSession" \in DOMAIN Rest(props)
    /\ Get(delegated, "userSession") = Obj("userSession")

----------------------------------------------------------------------------
(* C5 *)

\* C5 as claimed: every passthrough field of the incoming props appears with
\* an unchanged value in the props delegated to either renderer, whatever its
\* name.
C5_PassthroughAlwaysUnchanged ==
    Completed =>
        \A k \in DOMAIN Rest(props) : k \in DOMAIN delegated /\ delegated[k] = props[k]

\* C5 amended: every passthrough field appears unchanged in the props delegated
\* to PageBootstrap; in the props delegated to BrowserPageBootstrap every
\* passthrough field not named isInIframe, iframeReferrer, cookiesManager or
\* userSession appears unchanged, and those four names carry the values
\* computed in the render.
C5_PassthroughUnchanged ==
    Completed =>
        \A k \in DOMAIN Rest(props) :
            /\ k \in DOMAIN delegated
            /\ delegated[k] = IF returned = "BrowserPageBootstrap" /\ k \in BrowserFields
                              THEN locals[k]
                              ELSE props[k]

\* a browser render delegated a passthrough field named theme unchanged
C5_Witness ==
    /\ Completed
    /\ returned = "BrowserPageBootstrap"
    /\ "theme" \in DOMAIN Rest(props)
    /\ Get(delegated, "theme") = Obj("passthrough")

----------------------------------------------------------------------------
(* C6 *)

\* C6 as claimed: the delegated props are a superset of the incoming props:
\* every key of the incoming props, pageProps included, is delegated with the
\* same value.
C6_DelegatedIsSuperset ==
    Completed =>
        \A k \in DOMAIN props : k \in DOMAIN delegated /\ delegated[k] = props[k]

\* C6 amended: every key of the incoming props other than pageProps (and, for
\* BrowserPageBootstrap, other than passthrough fields named isInIframe,
\* iframeReferrer, cookiesManager or userSession) is delegated with the same
\* value; pageProps is not delegated under its own key, its fields are spread
\* into the delegated props, where the properties set after them replace them.
C6_DelegatedCoversProps ==
    Completed =>
        /\ \A k \in (DOMAIN props) \ {"pageProps"} :
              (returned = "BrowserPageBootstrap" /\ k \in BrowserFields)
              \/ (k \in DOMAIN delegated /\ delegated[k] = props[k])
        /\ \A k \in DOMAIN pageProps :
              /\ k \in DOMAIN delegated
              /\ (k \notin (DOMAIN props \cup {"i18nextInstance", "theme"} \cup BrowserFields)
                    => delegated[k] = pageProps[k])
        /\ ("pageProps" \notin DOMAIN pageProps => "pageProps" \notin DOMAIN delegated)

\* a render whose pageProps has its own router field delegated the router of
\* the incoming props
C6_Witness ==
    /\ Completed
    /\ "router" \in DOMAIN pageProps
    /\ pageProps["router"] # props["router"]
    /\ Get(delegated, "router") = props["router"]

----------------------------------------------------------------------------
(* C7 *)

\* C7: every render emits one breadcrumb, ready or not, browser or not; it is
\* the first call of the render, before the gate and every collaborator; after
\* n renders n breadcrumbs have been emitted.
C7_BreadcrumbEveryRender ==
    /\ (pc = "breadcrumb" => calls = << >>)
    /\ (pc \notin {"idle", "breadcrumb"} =>
          /\ Len(calls) >= 1
          /\ calls[1].fn = "Sentry.addBreadcrumb"
          /\ CalledOnce("Sentry.addBreadcrumb"))
    /\ stats.breadcrumbs = stats.renders - (IF pc = "breadcrumb" THEN 1 ELSE 0)
    /\ (pc = "idle" => stats.breadcrumbs >= stats.renders)

\* two renders are over, one of them not ready, and two breadcrumbs are out
C7_Witness ==
    /\ pc = "idle"
    /\ stats.renders = 2
    /\ stats.gatePasses = 1
    /\ stats.breadcrumbs = 2

----------------------------------------------------------------------------
(* C8 *)

\* C8: an exception of a collaborator is not caught: the render is over in the
\* failed state with that collaborator as the origin, nothing was returned,
\* no renderer was delegated to, the failing call is the last call made, it
\* was made once, and no collaborator later in the call order was called.
C8_FailurePropagates ==
    /\ (thrown # "none" => pc = "failed")
    /\ (pc = "failed" =>
          /\ thrown \in CollaboratorSet
          /\ returned = "none"
          /\ delegated = EmptyObject
          /\ Delegations = {}
          /\ calls[Len(calls)].fn = thrown
          /\ CalledOnce(thrown)
          /\ \A fn \in CollaboratorSet :
                /\ (OrderOf(fn) > OrderOf(thrown) => ~Called(fn))
                /\ (OrderOf(fn) < OrderOf(thrown) => CalledOnce(fn)))

\* getIframeReferrer threw in a browser render
C8_Witness ==
    /\ pc = "failed"
    /\ thrown = "getIframeReferrer"
    /\ Called("isRunningInIframe")

----------------------------------------------------------------------------
(* C9 *)

\* C9: a render with isReadyToRender true or statusCode 404 in which no
\* collaborator throws delegates exactly once, to BrowserPageBootstrap in a
\* browser and to PageBootstrap otherwise, and does not return null.
C9_ReadyRenderDelegatesOnce ==
    /\ (pc = "done" /\ (FlagTrue \/ Status404)) =>
          /\ returned = (IF browser THEN "BrowserPageBootstrap" ELSE "PageBootstrap")
          /\ Cardinality(Delegations) = 1
          /\ \A i \in Delegations : calls[i].fn = returned
    /\ (InRender /\ (FlagTrue \/ Status404)) => returned # "null"

\* statusCode 404 with the readiness flag false, in a browser
C9_Witness ==
    /\ pc = "done"
    /\ Get(pageProps, "isReadyToRender") = Bool(FALSE)
    /\ Status404
    /\ browser
    /\ returned = "BrowserPageBootstrap"

----------------------------------------------------------------------------
(* C10 *)

\* C10: a render that fails the gate calls no collaborator and binds nothing;
\* a render that returns has called i18nextLocize and initCustomerTheme once
\* each if it passed the gate, and has constructed one session manager if it
\* passed the gate in a browser; over all renders i18nextLocize was called
\* once per gate-passing render, and initCustomerTheme and the manager
\* constructor once per gate-passing (browser) render, less only the renders
\* an exception ended.
C10_CallsPerRender ==
    /\ (InRender /\ ~GatePasses(pageProps)) =>
          /\ \A i \in DOMAIN calls : calls[i].fn \in Diagnostics
          /\ locals = EmptyObject
          /\ pageBootstrapProps = EmptyObject
          /\ delegated = EmptyObject
    /\ (pc = "done" /\ GatePasses(pageProps)) =>
          /\ CalledOnce("i18nextLocize")
          /\ CalledOnce("initCustomerTheme")
          /\ Cardinality(CallsTo("new UniversalCookiesManager")) = (IF browser THEN 1 ELSE 0)
    /\ \A fn \in CollaboratorSet : Cardinality(CallsTo(fn)) <= 1
    /\ (pc = "idle" =>
          /\ stats.i18n = stats.gatePasses
          /\ stats.theme <= stats.gatePasses
          /\ stats.theme >= stats.gatePasses - stats.aborted
          /\ stats.managers <= stats.browserGatePasses
          /\ stats.managers >= stats.browserGatePasses - stats.aborted
          /\ (stats.aborted = 0 =>
                /\ stats.theme = stats.gatePasses
                /\ stats.managers = stats.browserGatePasses))

\* two renders passed the gate, one of them in a browser, and none threw
C10_Witness ==
    /\ pc = "idle"
    /\ stats.gatePasses = 2
    /\ stats.browserGatePasses = 1
    /\ stats.aborted = 0
    /\ stats.i18n = 2
    /\ stats.theme = 2
    /\ stats.managers = 1

====
